---- MODULE Spec2Model ----
(***************************************************************************)
(* A model of the posts web service of main.go: the handlers index and     *)
(* create, the helpers loadPost and savePosts, and the file posts.json     *)
(* they read and rewrite.  Handlers run as net/http runs them: one         *)
(* goroutine per request, with no lock around the file.                    *)
(***************************************************************************)
EXTENDS Integers, Sequences, FiniteSets, TLC

\* Requests accepted in one run, when they arrive one after the other.
MaxOps == 3
\* Requests accepted in one run, when handlers overlap.
MaxConc == 2

\* Goroutines that may run a handler at the same time.
Procs == {1, 2}

\* The largest value of the Go type int (32-bit build); ViewCount wraps there.
MaxInt == 2147483647
MinInt == -MaxInt - 1

(***************************************************************************)
(* The clock counts days: a run sees one midnight.                         *)
(* time.Now().Format("2006-01-02") writes the day of a reading.            *)
(***************************************************************************)
Days == <<"2025-04-30", "2025-05-01">>

Format(t) == Days[t]

(***************************************************************************)
(* type Post and its pointer-receiver methods.                             *)
(***************************************************************************)
Fields == <<"Title", "Content", "CreatedAt", "Author", "ViewCount", "LastViewed">>

\* var newPost Post: the zero value.
ZeroPost ==
  [Title |-> "", Content |-> "", CreatedAt |-> "", Author |-> "",
   ViewCount |-> 0, LastViewed |-> ""]

\* Faulty variants of increaseViewCount, for sensitivity checks: no increment; two increments.
increaseViewCountNone(post) == post

increaseViewCountTwice(post) == [post EXCEPT !.ViewCount = @ + 2]

\* post.ViewCount += 1, in Go's wrapping int arithmetic.
increaseViewCount(post) ==
  [post EXCEPT !.ViewCount = IF @ = MaxInt THEN MinInt ELSE @ + 1]

\* Faulty variant of setLastViewed: the date lands in CreatedAt too.
setLastViewedAsCreated(post, t) ==
  [post EXCEPT !.LastViewed = Format(t), !.CreatedAt = Format(t)]

\* post.LastViewed = time.Now().Format("2006-01-02")
setLastViewed(post, t) == [post EXCEPT !.LastViewed = Format(t)]

\* Faulty variant of setCreatedAt: no date is set.
setCreatedAtNone(post, t) == post

\* post.CreatedAt = time.Now().Format("2006-01-02")
setCreatedAt(post, t) == [post EXCEPT !.CreatedAt = Format(t)]

\* Faulty variant of resetViewCount: the caller's count is kept.
resetViewCountKept(post) == post

\* newPost.ViewCount = 0
resetViewCount(post) == [post EXCEPT !.ViewCount = 0]

(***************************************************************************)
(* A []Post value: the nil slice and the empty slice differ (they marshal  *)
(* to null and to []).                                                     *)
(***************************************************************************)
NilSlice == [isNil |-> TRUE, elems |-> <<>>]

MkSlice(s) == [isNil |-> FALSE, elems |-> s]

\* Faulty variant of AppendPost: the new post goes first.
AppendPostFirst(slice, post) == MkSlice(<<post>> \o slice.elems)

\* posts = append(posts, newPost)
AppendPost(slice, post) == MkSlice(Append(slice.elems, post))

(***************************************************************************)
(* JSON text, by its structure.  A document is empty (zero bytes),         *)
(* garbage (not JSON), null, or an array of objects; an object is the      *)
(* sequence of its <<key, value>> members as written.  Missing stands for  *)
(* no file at all.                                                         *)
(***************************************************************************)
JStr(s) == [t |-> "string", s |-> s, n |-> 0]
JNum(n) == [t |-> "number", s |-> "", n |-> n]

Missing == [k |-> "missing", v |-> <<>>]
Empty   == [k |-> "empty", v |-> <<>>]
Garbage == [k |-> "garbage", v |-> <<>>]
JNull   == [k |-> "null", v |-> <<>>]
JArray(objs) == [k |-> "array", v |-> objs]
JObject(members) == [k |-> "object", v |-> members]

\* encoding/json writes the struct's fields in order, none omitted.
MarshalPost(post) ==
  << <<"Title", JStr(post.Title)>>,
     <<"Content", JStr(post.Content)>>,
     <<"CreatedAt", JStr(post.CreatedAt)>>,
     <<"Author", JStr(post.Author)>>,
     <<"ViewCount", JNum(post.ViewCount)>>,
     <<"LastViewed", JStr(post.LastViewed)>> >>

\* json.MarshalIndent(posts, "", "  "): a nil slice is written as null.
MarshalIndent(slice) ==
  IF slice.isNil THEN JNull
  ELSE JArray([i \in 1..Len(slice.elems) |-> MarshalPost(slice.elems[i])])

\* encoding/json matches a key to a field by name, ignoring case.
ToLower(key) ==
  CASE key = "Title"      -> "title"
    [] key = "Content"    -> "content"
    [] key = "CreatedAt"  -> "createdat"
    [] key = "Author"     -> "author"
    [] key = "ViewCount"  -> "viewcount"
    [] key = "LastViewed" -> "lastviewed"
    [] OTHER              -> key

FieldFor(key) ==
  LET hits == {i \in 1..Len(Fields) : ToLower(Fields[i]) = ToLower(key)}
  IN  IF hits = {} THEN "" ELSE Fields[CHOOSE i \in hits : TRUE]

\* Faulty variant of SetField: numbers are not decoded.
SetFieldStrings(post, key, val) ==
  LET f == FieldFor(key)
  IN  IF f = "" \/ f = "ViewCount" \/ val.t # "string" THEN post
      ELSE [post EXCEPT ![f] = val.s]

\* One member of an object: an unknown key, or a value of the wrong JSON
\* type, leaves the struct as it is.
SetField(post, key, val) ==
  LET f == FieldFor(key)
  IN  IF f = "" THEN post
      ELSE IF f = "ViewCount"
           THEN IF val.t = "number" THEN [post EXCEPT !.ViewCount = val.n] ELSE post
           ELSE IF val.t = "string" THEN [post EXCEPT ![f] = val.s] ELSE post

RECURSIVE UnmarshalPost(_, _)
UnmarshalPost(members, post) ==
  IF members = <<>> THEN post
  ELSE UnmarshalPost(Tail(members),
                     SetField(post, Head(members)[1], Head(members)[2]))

(***************************************************************************)
(* The size in bytes of a document as json.MarshalIndent lays it out.      *)
(***************************************************************************)
RECURSIVE Digits(_)
Digits(n) ==
  IF n < 0 THEN 1 + Digits(-n)
  ELSE IF n < 10 THEN 1 ELSE 1 + Digits(n \div 10)

ValSize(val) == IF val.t = "string" THEN Len(val.s) + 2 ELSE Digits(val.n)

RECURSIVE MembersSize(_)
MembersSize(members) ==
  IF members = <<>> THEN 0
  ELSE 4 + (Len(Head(members)[1]) + 2) + 2 + ValSize(Head(members)[2])
         + (IF Len(members) > 1 THEN 1 ELSE 0) + 1
         + MembersSize(Tail(members))

RECURSIVE ObjectsSize(_)
ObjectsSize(objs) ==
  IF objs = <<>> THEN 0
  ELSE 4 + MembersSize(Head(objs)) + 3
         + (IF Len(objs) > 1 THEN 2 ELSE 0)
         + ObjectsSize(Tail(objs))

Size(doc) ==
  CASE doc.k = "null"  -> 4
    [] doc.k = "array" -> IF doc.v = <<>> THEN 2 ELSE 2 + ObjectsSize(doc.v) + 2
    [] OTHER           -> 0

(***************************************************************************)
(* loadPost and savePosts, as functions of what the file holds.            *)
(***************************************************************************)
\* Faulty variant of Unmarshal: a text that is no JSON ends the handler.
UnmarshalFatal(data, slice) ==
  CASE data.k = "array" ->
         [ptrNil |-> FALSE,
          posts  |-> MkSlice([i \in 1..Len(data.v) |->
                                UnmarshalPost(data.v[i], ZeroPost)])]
    [] OTHER            -> [ptrNil |-> TRUE, posts |-> slice]

\* json.Unmarshal(data, &posts) with posts a *[]Post.  An array is decoded
\* into the slice; the literal null sets the pointer posts itself to nil;
\* anything else is a syntax error, which loadPost ignores.
Unmarshal(data, slice) ==
  CASE data.k = "array" ->
         [ptrNil |-> FALSE,
          posts  |-> MkSlice([i \in 1..Len(data.v) |->
                                UnmarshalPost(data.v[i], ZeroPost)])]
    [] data.k = "null"  -> [ptrNil |-> TRUE, posts |-> slice]
    [] OTHER            -> [ptrNil |-> FALSE, posts |-> slice]

\* What a handler writes to its http.ResponseWriter, one entry per write.
HttpError(code, msg) ==
  [kind |-> "error", code |-> code, msg |-> msg, payload |-> Empty]
JsonPayload(slice) ==
  [kind |-> "json", code |-> 200, msg |-> "", payload |-> MarshalIndent(slice)]
TextPayload(msg) ==
  [kind |-> "text", code |-> 200, msg |-> msg, payload |-> Empty]

\* loadPost(&posts, w) when os.ReadFile succeeded (ok) or failed on a file
\* holding f.  A failed read writes the error and goes on with no data;
\* `range *posts` dereferences the pointer, so a nil pointer panics.
loadPost(f, ok, slice) ==
  LET data == IF ok THEN f ELSE Empty
      u    == Unmarshal(data, slice)
  IN  [errors |-> IF ok THEN <<>>
                  ELSE <<HttpError(500, "Error reading request body")>>,
       panic  |-> u.ptrNil,
       posts  |-> u.posts]

\* os.ReadFile fails when there is no file, and may fail on one that exists.
ReadOutcomes(f, mayFail) ==
  IF f.k = "missing" THEN {FALSE} ELSE IF mayFail THEN {TRUE, FALSE} ELSE {TRUE}

\* os.OpenFile and f.Write may fail.
WriteOutcomes(mayFail) == IF mayFail THEN {TRUE, FALSE} ELSE {TRUE}

\* os.WriteFile opens with O_CREATE|O_TRUNC: the file is empty from then on.
OpenTrunc(f) == Empty

\* f.Write(data) writes at offset 0 of the file as it is then: over a longer
\* content written since the open, the tail of that content stays.
WriteOver(cur, data) ==
  IF cur.k \in {"empty", "missing"} THEN data
  ELSE IF cur.k = "garbage" THEN Garbage
  ELSE IF Size(data) >= Size(cur) THEN data ELSE Garbage

\* Faulty variant of MethodAllowed: every method is let through.
MethodAllowedAny(method) == TRUE

\* r.Method != http.MethodPost is refused.
MethodAllowed(method) == method = "POST"

\* json.Unmarshal(body, &newPost): a body that is no JSON object sets nothing.
UnmarshalBody(doc) ==
  IF doc.k = "object" THEN UnmarshalPost(doc.v, ZeroPost) ELSE ZeroPost

\* The error json.Unmarshal(body, &newPost) returns and create drops: the body
\* is no JSON object, or a member's value has the wrong JSON type for its
\* field (that member is skipped, the others are decoded).
Mistyped(key, val) ==
  LET f == FieldFor(key)
  IN  /\ f # ""
      /\ IF f = "ViewCount" THEN val.t # "number" ELSE val.t # "string"

UnmarshalBodyError(doc) ==
  \/ doc.k # "object"
  \/ \E i \in 1..Len(doc.v) : Mistyped(doc.v[i][1], doc.v[i][2])

\* Faulty variant of ReadAllFailed: the error of io.ReadAll is not looked at.
ReadAllFailedNever(r) == FALSE

\* body, err := io.ReadAll(r.Body); err != nil
ReadAllFailed(r) == r.readErr

(***************************************************************************)
(* Requests.                                                               *)
(***************************************************************************)
\* The README's example body: lower-case keys and a created_at member.
ReadmeBody ==
  JObject(<< <<"title", JStr("A")>>, <<"content", JStr("B")>>,
             <<"created_at", JStr("2025-04-30T12:00:00Z")>>,
             <<"author", JStr("C")>> >>)

\* A body that supplies the fields the server owns, and a number where the
\* author's name belongs: json.Unmarshal skips that member and returns an error.
OwnedBody ==
  JObject(<< <<"Title", JStr("T")>>, <<"CreatedAt", JStr("1999-01-01")>>,
             <<"ViewCount", JNum(7)>>, <<"LastViewed", JStr("1999-12-31")>>,
             <<"Author", JNum(42)>> >>)

Requests ==
  {[op |-> "index", method |-> "GET", readErr |-> FALSE, body |-> Empty]}
  \cup {[op |-> "create", method |-> "POST", readErr |-> FALSE, body |-> b] :
          b \in {ReadmeBody, OwnedBody, Garbage}}
  \cup {[op |-> "create", method |-> "POST", readErr |-> TRUE, body |-> Empty],
        [op |-> "create", method |-> "GET", readErr |-> FALSE, body |-> ReadmeBody]}

(***************************************************************************)
(* State.                                                                  *)
(***************************************************************************)
VARIABLES
  file,    \* what posts.json holds (var filePath names it)
  now,     \* the clock
  h,       \* per goroutine: the handler's position and locals
  mayFail, \* whether a file-system call may still fail on a file that is there
  budget,  \* requests still to arrive
  log      \* the last two requests served, in order of completion

vars == <<file, now, h, mayFail, budget, log>>

NoRequest == [op |-> "none", method |-> "", readErr |-> FALSE, body |-> Empty]

Idle ==
  [pc |-> "idle", req |-> NoRequest, posts |-> NilSlice, newPost |-> ZeroPost,
   i |-> 0, resp |-> <<>>, trace |-> <<>>, before |-> Missing, t0 |-> 0]

\* A list typed by hand: lower-case keys, fields left out.
HandWritten == << <<"title", JStr("H")>>, <<"viewcount", JNum(2)>> >>

\* A file a deployment may start from: none, a damaged one, an empty list, a
\* list typed by hand.
InitFiles == {Missing, Garbage, JArray(<<>>), JArray(<<HandWritten>>)}

Init ==
  /\ file \in InitFiles
  /\ now = 1
  /\ h = [p \in Procs |-> Idle]
  /\ mayFail = TRUE
  /\ budget = MaxOps
  /\ log = <<>>

\* A run in which the file system does not fail.
ConcInit ==
  /\ file \in InitFiles
  /\ now = 1
  /\ h = [p \in Procs |-> Idle]
  /\ mayFail = FALSE
  /\ budget = MaxConc
  /\ log = <<>>

\* A deployment whose one record has been viewed almost MaxInt times; the
\* file system does not fail.
NearMax == << <<"Title", JStr("N")>>, <<"ViewCount", JNum(MaxInt - 1)>> >>

WrapInit ==
  /\ file = JArray(<<NearMax>>)
  /\ now = 1
  /\ h = [p \in Procs |-> Idle]
  /\ mayFail = FALSE
  /\ budget = MaxOps
  /\ log = <<>>

\* One file-system call of a handler: what the file held before and after.
Event(ev, ok, pre, post) == [ev |-> ev, ok |-> ok, pre |-> pre, post |-> post]

\* The handler of goroutine p returns (or panics): the request is logged with
\* the handler's last locals and the goroutine is free again.
LastTwo(q) == IF Len(q) > 2 THEN Tail(q) ELSE q

Finish(p, rec, after, panicked) ==
  /\ log' = LastTwo(Append(log,
               [req |-> rec.req, resp |-> rec.resp, trace |-> rec.trace,
                before |-> rec.before, after |-> after,
                posts |-> rec.posts, newPost |-> rec.newPost,
                t0 |-> rec.t0, t1 |-> now, panicked |-> panicked,
                prevOp |-> IF log = <<>> THEN "none" ELSE log[Len(log)].req.op]))
  /\ h' = [h EXCEPT ![p] = Idle]

Goto(p, rec) == h' = [h EXCEPT ![p] = rec] /\ UNCHANGED log

InFlight == {p \in Procs : h[p].pc # "idle"}

\* A run sees at most one call fail that could have succeeded.
Fault(ok, natural) == mayFail' = (mayFail /\ (ok \/ natural))

\* net/http calls the handler of request r on the free goroutine p.
Accept(p, r) ==
  /\ h[p].pc = "idle"
  /\ budget > 0
  /\ budget' = budget - 1

Called(p, r) == [Idle EXCEPT !.req = r, !.before = file, !.t0 = now]

(***************************************************************************)
(* Actions.                                                                *)
(***************************************************************************)
\* Midnight passes.
Tick ==
  /\ now < Len(Days)
  /\ now' = now + 1
  /\ UNCHANGED <<file, h, mayFail, budget, log>>

\* index is called: var posts []Post; loadPost(&posts, w).
indexLoad(p, r) ==
  /\ Accept(p, r)
  /\ r.op = "index"
  /\ \E ok \in ReadOutcomes(file, mayFail) :
       LET l   == loadPost(file, ok, NilSlice)
           rec == [Called(p, r) EXCEPT
                     !.resp = l.errors,
                     !.trace = <<Event("read", ok, file, file)>>,
                     !.posts = l.posts]
       IN  /\ Fault(ok, file.k = "missing")
           /\ IF l.panic THEN Finish(p, rec, file, TRUE)
              ELSE Goto(p, [rec EXCEPT !.pc = "index_loop"])
  /\ UNCHANGED <<file, now>>

\* index: one turn of the loop over posts.
indexLoop(p) ==
  /\ UNCHANGED budget
  /\ h[p].pc = "index_loop"
  /\ h[p].i < Len(h[p].posts.elems)
  /\ LET k == h[p].i + 1
     IN  Goto(p, [h[p] EXCEPT
                    !.posts.elems[k] = setLastViewed(increaseViewCount(@), now),
                    !.i = k])
  /\ UNCHANGED <<file, now, mayFail>>

\* index: the loop is over; savePosts(posts) marshals and opens the file.  A
\* failed open ends savePosts with an error that index drops, and index goes
\* on to write its response.
indexSave(p) ==
  /\ UNCHANGED budget
  /\ h[p].pc = "index_loop"
  /\ h[p].i >= Len(h[p].posts.elems)
  /\ \E ok \in WriteOutcomes(mayFail) :
       LET f2  == IF ok THEN OpenTrunc(file) ELSE file
           rec == [h[p] EXCEPT !.trace = Append(@, Event("open", ok, file, f2))]
       IN  /\ file' = f2
           /\ Fault(ok, FALSE)
           /\ IF ok THEN Goto(p, [rec EXCEPT !.pc = "index_write"])
              ELSE Finish(p, [rec EXCEPT !.resp = Append(@, JsonPayload(rec.posts))],
                          f2, FALSE)
  /\ UNCHANGED now

\* index: savePosts writes the data; then index encodes posts as its response.
indexWrite(p) ==
  /\ UNCHANGED budget
  /\ h[p].pc = "index_write"
  /\ \E ok \in WriteOutcomes(mayFail) :
       LET f2  == IF ok THEN WriteOver(file, MarshalIndent(h[p].posts)) ELSE file
           rec == [h[p] EXCEPT !.trace = Append(@, Event("write", ok, file, f2)),
                               !.resp = Append(@, JsonPayload(h[p].posts))]
       IN  /\ file' = f2
           /\ Fault(ok, FALSE)
           /\ Finish(p, rec, f2, FALSE)
  /\ UNCHANGED now

\* create is called: the method check, io.ReadAll, json.Unmarshal,
\* newPost.setCreatedAt().
createParse(p, r) ==
  /\ Accept(p, r)
  /\ r.op = "create"
  /\ LET rec == Called(p, r)
     IN  IF ~MethodAllowed(r.method)
         THEN Finish(p, [rec EXCEPT !.resp =
                           <<HttpError(405, "Please submit a post request")>>],
                     file, FALSE)
         ELSE IF ReadAllFailed(r)
         THEN Finish(p, [rec EXCEPT !.resp =
                           <<HttpError(400, "Error reading request body")>>],
                     file, FALSE)
         ELSE Goto(p, [rec EXCEPT !.pc = "create_load",
                                  !.newPost = setCreatedAt(UnmarshalBody(r.body), now)])
  /\ UNCHANGED <<file, now, mayFail>>

\* create: newPost.setLastViewed(); newPost.ViewCount = 0; loadPost(&posts, w).
createLoad(p) ==
  /\ UNCHANGED budget
  /\ h[p].pc = "create_load"
  /\ \E ok \in ReadOutcomes(file, mayFail) :
       LET l   == loadPost(file, ok, NilSlice)
           rec == [h[p] EXCEPT !.newPost = resetViewCount(setLastViewed(@, now)),
                               !.resp = @ \o l.errors,
                               !.trace = Append(@, Event("read", ok, file, file)),
                               !.posts = l.posts]
       IN  /\ Fault(ok, file.k = "missing")
           /\ IF l.panic THEN Finish(p, rec, file, TRUE)
              ELSE Goto(p, [rec EXCEPT !.pc = "create_save"])
  /\ UNCHANGED <<file, now>>

\* create: posts = append(posts, newPost); savePosts(posts) marshals and opens
\* the file.  A failed open is dropped and create confirms all the same.
createSave(p) ==
  /\ UNCHANGED budget
  /\ h[p].pc = "create_save"
  /\ \E ok \in WriteOutcomes(mayFail) :
       LET f2  == IF ok THEN OpenTrunc(file) ELSE file
           rec == [h[p] EXCEPT !.posts = AppendPost(@, h[p].newPost),
                               !.trace = Append(@, Event("open", ok, file, f2))]
       IN  /\ file' = f2
           /\ Fault(ok, FALSE)
           /\ IF ok THEN Goto(p, [rec EXCEPT !.pc = "create_write"])
              ELSE Finish(p, [rec EXCEPT !.resp =
                                Append(@, TextPayload("Post successfully created"))],
                          f2, FALSE)
  /\ UNCHANGED now

\* create: savePosts writes the data; then create writes its confirmation.
createWrite(p) ==
  /\ UNCHANGED budget
  /\ h[p].pc = "create_write"
  /\ \E ok \in WriteOutcomes(mayFail) :
       LET f2  == IF ok THEN WriteOver(file, MarshalIndent(h[p].posts)) ELSE file
           rec == [h[p] EXCEPT !.trace = Append(@, Event("write", ok, file, f2)),
                               !.resp = Append(@, TextPayload("Post successfully created"))]
       IN  /\ file' = f2
           /\ Fault(ok, FALSE)
           /\ Finish(p, rec, f2, FALSE)
  /\ UNCHANGED now

\* main routes a request to its handler.
Serve(p, r) ==
  \/ indexLoad(p, r)
  \/ createParse(p, r)

Handle(p) ==
  \/ indexLoop(p)
  \/ indexSave(p)
  \/ indexWrite(p)
  \/ createLoad(p)
  \/ createSave(p)
  \/ createWrite(p)

\* Handlers run concurrently, as net/http runs them, within one day.
Next ==
  \/ \E p \in Procs : \E r \in Requests : Serve(p, r)
  \/ \E p \in Procs : Handle(p)

Spec == ConcInit /\ [][Next]_vars

\* Requests arrive strictly one after the other: a handler is called only
\* when no other is running.
SeqServe ==
  /\ InFlight = {}
  /\ \E r \in Requests : Serve(CHOOSE p \in Procs : TRUE, r)

SeqNext ==
  \/ Tick
  \/ SeqServe
  \/ \E p \in Procs : Handle(p)

SeqSpec == Init /\ [][SeqNext]_vars

\* The same, from the much-viewed record.
WrapSpec == WrapInit /\ [][SeqNext]_vars

(***************************************************************************)
(* Reading the log.                                                        *)
(***************************************************************************)
\* The records a document holds, as loadPost decodes them; none when the
\* document is no list.
Coll(doc) == Unmarshal(doc, NilSlice).posts.elems

\* The request just served.  With requests served one after the other, every
\* request is the last of the log in the state its handler returns to, where
\* no handler is running.
Entries == IF InFlight = {} /\ log # <<>> THEN {log[Len(log)]} ELSE {}

IsIndex(e) == e.req.op = "index"

\* A create that got past the method check and io.ReadAll.
IsCreate(e) == e.req.op = "create" /\ e.req.method = "POST" /\ ~e.req.readErr

Calls(e, ev) == {k \in 1..Len(e.trace) : e.trace[k].ev = ev}

ReadFailed(e) == \E k \in Calls(e, "read") : ~e.trace[k].ok

SaveFailed(e) == \E k \in Calls(e, "open") \cup Calls(e, "write") : ~e.trace[k].ok

Saved(e) == \E k \in Calls(e, "write") : e.trace[k].ok

\* The handler read the file, wrote it, and no call failed.
Clean(e) == ~ReadFailed(e) /\ Saved(e)

\* The days the clock showed while the request was served.
DatesOf(e) == {Format(t) : t \in e.t0..e.t1}

Kinds(e) == [k \in 1..Len(e.resp) |-> e.resp[k].kind]

(***************************************************************************)
(* C1.  After an Enumerate of a non-empty Collection whose file-system    *)
(* calls succeed, the file holds the same number of records, every         *)
(* record's ViewCount is its value before plus 1, every record's           *)
(* LastViewed is a date the clock showed during the request, and the       *)
(* response is exactly the list the file now holds.                        *)
(***************************************************************************)
C1_EnumerateCountsEveryView ==
  \A e \in Entries :
    (IsIndex(e) /\ Clean(e) /\ Coll(e.before) # <<>>) =>
      LET old == Coll(e.before)
          new == Coll(e.after)
      IN  /\ Kinds(e) = <<"json">>
          /\ e.resp[1].payload = e.after
          /\ Len(new) = Len(old)
          /\ \A i \in 1..Len(old) :
               /\ new[i].ViewCount = old[i].ViewCount + 1
               /\ new[i].LastViewed \in DatesOf(e)

C1_Witness ==
  \E e \in Entries :
    /\ IsIndex(e) /\ Clean(e)
    /\ Len(Coll(e.before)) >= 2
    /\ Coll(e.after)[2].ViewCount = Coll(e.before)[2].ViewCount + 1
    /\ Coll(e.after)[2].LastViewed = Format(e.t1)

(***************************************************************************)
(* C2.  Create only appends: whatever the file holds before a create, and  *)
(* unless the save itself fails, the file afterwards holds the records it  *)
(* held before, unchanged and in order, followed by the one new record.    *)
(* The code breaks this: after a failed read create saves the new record   *)
(* alone, and on a file holding null it panics and appends nothing.        *)
(***************************************************************************)
C2_CreateOnlyAppends ==
  \A e \in Entries :
    (IsCreate(e) /\ ~SaveFailed(e)) =>
      Coll(e.after) = Append(Coll(e.before), e.newPost)

(***************************************************************************)
(* C3.  A record appended by create has ViewCount 0 and CreatedAt equal to *)
(* LastViewed, both the creation date.  The code reads the clock once for  *)
(* each stamp, so a midnight between the two reads breaks the equality.    *)
(***************************************************************************)
C3_NewRecordStamps ==
  \A e \in Entries :
    (IsCreate(e) /\ Clean(e)) =>
      LET r == Coll(e.after)[Len(Coll(e.after))]
      IN  /\ r.ViewCount = 0
          /\ r.CreatedAt = r.LastViewed
          /\ r.CreatedAt \in DatesOf(e)

(***************************************************************************)
(* C4.  A create called with a method other than POST answers 405 and      *)
(* nothing else, makes no file-system call, and leaves the file as it was. *)
(***************************************************************************)
C4_WrongVerbRejected ==
  \A e \in Entries :
    (e.req.op = "create" /\ e.req.method # "POST") =>
      /\ Kinds(e) = <<"error">>
      /\ e.resp[1].code = 405
      /\ e.trace = <<>>
      /\ e.after = e.before

C4_Witness ==
  \E e \in Entries :
    /\ e.req.op = "create" /\ e.req.method = "GET"
    /\ Len(Coll(e.before)) >= 1
    /\ Kinds(e) = <<"error">>
    /\ e.after = e.before

(***************************************************************************)
(* C5.  Two creates served one after the other, each answered with the     *)
(* confirmation alone and with no file-system call failing, leave the      *)
(* list that was there before the first, followed by the first new record  *)
(* and then the second: its length is the initial length plus 2.           *)
(***************************************************************************)
Confirmed(e) == IsCreate(e) /\ Clean(e) /\ Kinds(e) = <<"text">>

C5_TwoCreatesInOrder ==
  (Len(log) = 2 /\ Confirmed(log[1]) /\ Confirmed(log[2])) =>
    /\ Coll(log[2].after) =
         Coll(log[1].before) \o <<log[1].newPost, log[2].newPost>>
    /\ Len(Coll(log[2].after)) = Len(Coll(log[1].before)) + 2

C5_Witness ==
  /\ Len(log) = 2 /\ Confirmed(log[1]) /\ Confirmed(log[2])
  /\ Len(Coll(log[1].before)) = 1
  /\ Len(Coll(log[2].after)) = 3
  /\ log[1].newPost.Title # log[2].newPost.Title

(***************************************************************************)
(* C6.  From a file holding the empty list: an Enumerate answers the empty *)
(* list and leaves it; a create then leaves exactly one record, with       *)
(* ViewCount 0; an Enumerate served next answers exactly that record, with *)
(* ViewCount 1.  (No file-system call failing.)                            *)
(***************************************************************************)
EmptyList == JArray(<<>>)

C7_FailedReadIsFatal ==
  \A e \in Entries :
    (ReadFailed(e) /\ ~SaveFailed(e)) =>
      /\ Kinds(e) = <<"error">>
      /\ e.resp[1].code = 500
      /\ Calls(e, "open") = {}
      /\ e.after = e.before

(***************************************************************************)
(* C8.  A save that fails is reported to the caller: the handler does not  *)
(* answer with its payload.  The code drops the error savePosts returns.   *)
(***************************************************************************)
C8_FailedSaveIsReported ==
  \A e \in Entries :
    (SaveFailed(e) /\ ~ReadFailed(e)) =>
      /\ e.resp # <<>>
      /\ \A k \in 1..Len(e.resp) : e.resp[k].kind = "error"

(***************************************************************************)
(* C9.  Lost update.  When two overlapping requests have loaded the same   *)
(* list and the second to finish opened the file after the first had       *)
(* written it, the file ends up holding what the second made of that list  *)
(* alone: after two creates the list is one record longer, not two, and    *)
(* after two Enumerates every ViewCount is one higher, not two.            *)
(***************************************************************************)
Loaded(e) == e.trace[1].pre

Overwrote(e1, e2) ==
  /\ Clean(e1) /\ Clean(e2)
  /\ Loaded(e1) = Loaded(e2)
  /\ e2.trace[2].pre = e1.trace[3].post
  /\ e2.trace[3].pre = Empty

C9_LaterSaveOverwritesEarlier ==
  (Len(log) = 2 /\ Overwrote(log[1], log[2])) =>
    LET old == Coll(Loaded(log[2]))
        new == Coll(log[2].after)
    IN  IF IsCreate(log[2])
        THEN new = Append(old, log[2].newPost)
        ELSE /\ Len(new) = Len(old)
             /\ \A i \in 1..Len(old) : new[i].ViewCount = old[i].ViewCount + 1

C9_Witness ==
  /\ Len(log) = 2 /\ Overwrote(log[1], log[2])
  /\ Confirmed(log[1]) /\ Confirmed(log[2])
  /\ Len(Coll(Loaded(log[1]))) = 1
  /\ file = log[2].after
  /\ Len(Coll(file)) = 2
  /\ Coll(file)[2] = log[2].newPost
  /\ log[1].newPost # log[2].newPost

(***************************************************************************)
(* C10.  Round trip.  A document savePosts has written is read back and    *)
(* written again as the same document: loading it and saving the result    *)
(* leaves the file with the same records, field for field, in order.  (On  *)
(* the document null, which savePosts writes for a nil list, loadPost      *)
(* panics and the file is left as it is.)                                  *)
(***************************************************************************)
Written(e) == e.trace[CHOOSE k \in Calls(e, "write") : e.trace[k].ok].post

RoundTrip(doc) ==
  LET l == loadPost(doc, TRUE, NilSlice)
  IN  IF l.panic THEN doc ELSE MarshalIndent(l.posts)

ReadsOf(trace) == {trace[k].pre : k \in {j \in 1..Len(trace) : trace[j].ev = "read"}}

\* Handler q is inside os.WriteFile, between the open and the write, and the
\* file it opened held records.
Truncating(q) ==
  /\ h[q].pc \in {"index_write", "create_write"}
  /\ Coll(h[q].trace[Len(h[q].trace)].pre) # <<>>

C11_SaveIsAtomic ==
  \A p, q \in Procs :
    (p # q /\ Truncating(q)) => Empty \notin ReadsOf(h[p].trace)

(***************************************************************************)
(* C12.  Over requests served one after the other, the ViewCount of a      *)
(* stored record is never negative and never goes down: an Enumerate       *)
(* raises it by exactly 1 and a Create leaves it as it is, also when the   *)
(* count stands at the largest int.                                        *)
(***************************************************************************)
C12_ViewCountMonotone ==
  \A e \in Entries :
    ((IsIndex(e) \/ IsCreate(e)) /\ Clean(e)) =>
      LET old == Coll(e.before)
          new == Coll(e.after)
      IN  /\ Len(new) >= Len(old)
          /\ \A i \in 1..Len(old) :
               /\ new[i].ViewCount >= 0
               /\ new[i].ViewCount >= old[i].ViewCount
               /\ new[i].ViewCount =
                    old[i].ViewCount + (IF IsIndex(e) THEN 1 ELSE 0)

(***************************************************************************)
(* C13.  An Enumerate whose file-system calls succeed changes ViewCount    *)
(* and LastViewed only: the file holds as many records as before, in the   *)
(* same order, each with the CreatedAt, Title, Content and Author it had.  *)
(***************************************************************************)
Kept == {"CreatedAt", "Title", "Content", "Author"}

C13_EnumerateKeepsTheRest ==
  \A e \in Entries :
    (IsIndex(e) /\ ~ReadFailed(e) /\ ~SaveFailed(e)) =>
      LET old == Coll(e.before)
          new == Coll(e.after)
      IN  /\ Len(new) = Len(old)
          /\ \A i \in 1..Len(old) : \A f \in Kept : new[i][f] = old[i][f]

C13_Witness ==
  \E e \in Entries :
    /\ IsIndex(e) /\ Clean(e)
    /\ Len(Coll(e.before)) = 2
    /\ Coll(e.before)[1].Title # Coll(e.before)[2].Title
    /\ Coll(e.before)[2].CreatedAt # ""
    /\ Coll(e.after)[2].LastViewed # Coll(e.before)[2].LastViewed
    /\ Coll(e.after)[2].ViewCount # Coll(e.before)[2].ViewCount

(***************************************************************************)
(* C14.  When posts.json is there but holds no JSON (damaged text, or no   *)
(* bytes), loadPost goes on with an empty list and writes no error: an     *)
(* Enumerate answers with no records and a Create saves a list holding     *)
(* the new record only and confirms.                                       *)
(***************************************************************************)
Malformed(doc) == doc.k \in {"garbage", "empty"}

C14_MalformedReadAsEmpty ==
  \A e \in Entries :
    (/\ IsIndex(e) \/ IsCreate(e)
     /\ e.trace # <<>>
     /\ Malformed(e.trace[1].pre)
     /\ ~ReadFailed(e) /\ ~SaveFailed(e)) =>
      /\ ~e.panicked
      /\ Saved(e)
      /\ IF IsIndex(e)
         THEN /\ Kinds(e) = <<"json">>
              /\ Coll(e.resp[1].payload) = <<>>
              /\ Coll(e.after) = <<>>
         ELSE /\ Kinds(e) = <<"text">>
              /\ Coll(e.after) = <<e.newPost>>

C14_Witness ==
  \E e \in Entries :
    /\ IsCreate(e) /\ Clean(e)
    /\ e.trace[1].pre = Garbage
    /\ Kinds(e) = <<"text">>
    /\ e.newPost.Title # ""
    /\ Coll(e.after) = <<e.newPost>>

(***************************************************************************)
(* C15.  A POST create whose body json.Unmarshal cannot parse is not       *)
(* rejected.  As first stated, for every body on which json.Unmarshal      *)
(* returns an error: the create appends exactly one record with empty      *)
(* Title, Content and Author, ViewCount 0, and CreatedAt and LastViewed    *)
(* dates of the request, and answers with the confirmation.                *)
(***************************************************************************)
ZeroRecordAppended(e) ==
  LET old == Coll(e.before)
      new == Coll(e.after)
      r   == new[Len(new)]
  IN  /\ Len(new) = Len(old) + 1
      /\ r.Title = "" /\ r.Content = "" /\ r.Author = ""
      /\ r.ViewCount = 0
      /\ r.CreatedAt \in DatesOf(e)
      /\ r.LastViewed \in DatesOf(e)
      /\ Kinds(e) = <<"text">>

C15_UnparsedBodyGivesZeroRecord ==
  \A e \in Entries :
    (IsCreate(e) /\ Clean(e) /\ UnmarshalBodyError(e.req.body)) =>
      ZeroRecordAppended(e)

(***************************************************************************)
(* C15, as it holds: the record is the zero record when the body is not    *)
(* well-formed JSON (a syntax error).  On a well-formed object with a      *)
(* member of the wrong type json.Unmarshal also returns an error, but the  *)
(* members that decode are kept.                                           *)
(***************************************************************************)
C15_MalformedBodyGivesZeroRecord ==
  \A e \in Entries :
    (IsCreate(e) /\ Clean(e) /\ e.req.body.k # "object") =>
      ZeroRecordAppended(e)

C15_Witness ==
  \E e \in Entries :
    /\ IsCreate(e) /\ Clean(e)
    /\ e.req.body = Garbage
    /\ Coll(e.before) # <<>>
    /\ ZeroRecordAppended(e)
    /\ e.t0 # e.t1

(***************************************************************************)
(* C16.  A POST create whose body io.ReadAll cannot read is answered with  *)
(* the single error 400 Bad Request; the handler calls neither loadPost    *)
(* nor savePosts and posts.json is as it was.                              *)
(***************************************************************************)
BodyUnread(e) == e.req.op = "create" /\ e.req.method = "POST" /\ e.req.readErr

C16_UnreadBodyRejected ==
  \A e \in Entries :
    BodyUnread(e) =>
      /\ Kinds(e) = <<"error">>
      /\ e.resp[1].code = 400
      /\ e.trace = <<>>
      /\ e.after = e.before
      /\ ~e.panicked

C16_Witness ==
  \E e \in Entries :
    /\ BodyUnread(e)
    /\ Coll(e.before) # <<>>
    /\ file = e.before
    /\ e.resp = <<HttpError(400, "Error reading request body")>>

(***************************************************************************)
(* C17.  The list an Enumerate returns is the list posts.json holds when   *)
(* the Enumerate has finished (requests served one after the other): no    *)
(* ViewCount or date is shown that was not saved.                          *)
(***************************************************************************)
C17_ResponseIsWhatWasSaved ==
  \A e \in Entries :
    (IsIndex(e) /\ ~ReadFailed(e) /\ Coll(e.before) # <<>>) =>
      \A k \in 1..Len(e.resp) :
        e.resp[k].kind = "json" => Coll(e.resp[k].payload) = Coll(e.after)

(***************************************************************************)
(* C18.  A request gets one outcome: once a handler has written an error   *)
(* (405, 400 or 500) it writes nothing else, neither the list nor the      *)
(* confirmation.                                                           *)
(***************************************************************************)
C18_ErrorIsTheOnlyOutcome ==
  \A e \in Entries :
    ((\E k \in 1..Len(e.resp) : e.resp[k].kind = "error") /\ ~SaveFailed(e)) =>
      Len(e.resp) = 1

(***************************************************************************)
(* C19.  No request removes a record: over requests served one after the   *)
(* other, also when a read fails or the file holds damaged text, the file  *)
(* never holds fewer records than before and the records it held stay in   *)
(* their order.                                                            *)
(***************************************************************************)
C19_NoRecordRemoved ==
  \A e \in Entries :
    ~SaveFailed(e) =>
      LET old == Coll(e.before)
          new == Coll(e.after)
      IN  /\ Len(new) >= Len(old)
          /\ \A i \in 1..Len(old) :
               /\ new[i].Title = old[i].Title
               /\ new[i].CreatedAt = old[i].CreatedAt

====
